---- MODULE Spec2Model ----
(***************************************************************************)
(* The GEDCOM parser of src/src/parser.rs as a state machine.              *)
(*                                                                         *)
(* The recursive descent is unfolded into an explicit call stack: one      *)
(* frame per active parse routine, one action per routine.  A step of an   *)
(* action is the routine's prologue (pc = "enter") or one iteration of its *)
(* loop (pc = "loop"), including every helper the iteration calls          *)
(* (take_line_value, parse_gender, parse_custom_tag) and, when the loop    *)
(* breaks, the return into the caller's assignment.                        *)
(*                                                                         *)
(* The token stream is the environment: each next_token() draws the next   *)
(* token from what the line grammar allows after the current one.          *)
(***************************************************************************)
EXTENDS Naturals, Sequences, FiniteSets, TLC

VARIABLES tokenizer, stack, data, status, fault, obs

vars == <<tokenizer, stack, data, status, fault, obs>>

(***************************************************************************)
(* Bounds of the model.                                                    *)
(***************************************************************************)
\* number of tokens of a document
MaxTokens == 11
\* largest level number written on a line
MaxLevel == 3

(***************************************************************************)
(* Option<T> and String.  A String is the sequence of the pieces pushed    *)
(* onto it, so that push / push_str are concatenations.                    *)
(***************************************************************************)
None == <<>>
Some(x) == <<x>>

(***************************************************************************)
(* Tokens (crate::tokenizer::Token).                                       *)
(***************************************************************************)
Level(n) == [k |-> "Level", n |-> n, s |-> ""]
Pointer(x) == [k |-> "Pointer", n |-> 0, s |-> x]
Tag(t) == [k |-> "Tag", n |-> 0, s |-> t]
CustomTag(t) == [k |-> "CustomTag", n |-> 0, s |-> t]
LineValue(v) == [k |-> "LineValue", n |-> 0, s |-> v]
EOF == [k |-> "EOF", n |-> 0, s |-> ""]

(***************************************************************************)
(* The words a document of the model is written with.  Every routine's     *)
(* match arms are represented: where a routine has several arms that do    *)
(* the same thing with another field (the 24 event tags of an individual,  *)
(* the parts of a name or of an address, the phone, fax and the like of a  *)
(* corporation), one or two of their tags stand for all.  UNKNOWNTAG is a  *)
(* tag no routine knows.                                                   *)
(***************************************************************************)
TagNames ==
    {"HEAD", "FAM", "INDI", "REPO", "SOUR", "SUBM", "TRLR",
     "GEDC", "DEST", "DATE", "COPR", "CHAR", "LANG", "NOTE", "PLAC", "VERS",
     "NAME", "CORP", "DATA", "ADDR", "PHON", "FORM", "CONT", "CONC", "SEX",
     "BIRT", "EVEN", "FAMC", "FAMS", "CHAN", "MARR", "HUSB", "CHIL", "AGNC",
     "ABBR", "TITL", "MIME", "TRAN", "TIME", "PEDI", "CALN", "GIVN", "ADR1",
     "PAGE", "UNKNOWNTAG"}

CustomTagNames == {"_UNKNOWN"}

PointerNames == {"I1"}

\* the texts that may follow a tag on its line
ValuesAfter(t) ==
    IF t.k = "CustomTag" THEN {"foo"}
    ELSE IF t.s = "SEX" THEN {"M", "F", "N", "U", "X"}
    ELSE IF t.s = "FORM" THEN {"LINEAGE-LINKED", "lineage-linked", "other"}
    ELSE IF t.s = "VERS" THEN {"7.0"}
    ELSE IF t.s \in {"FAMC", "FAMS"} THEN {"@F1@"}
    ELSE IF t.s = "PEDI" THEN {"birth"}
    ELSE IF t.s \in {"TITL", "ABBR", "CONT", "CONC"} THEN {"a", "b"}
    ELSE {"a"}

(***************************************************************************)
(* Tokenizer.  A cursor is the tokenizer's state (current token, line      *)
(* counter, number of tokens read, level of the line) together with the    *)
(* tokens consumed since the running action began.  Lex gives the tokens   *)
(* that can follow the current one:                                        *)
(*   LEVEL [@POINTER@] TAG [VALUE], then the next line or end of input,    *)
(* which is permanent.  The line counter counts the lines begun.  A line   *)
(* begins only if the document has room for its level and its tag.  The    *)
(* documents of the model nest as GEDCOM documents do: a line is at most   *)
(* one level deeper than the line before it (depth; the first line is at   *)
(* level 0 or 1).                                                          *)
(***************************************************************************)
Read(x, line, read, depth) ==
    [tok |-> x, line |-> line, read |-> read, depth |-> depth]

LineStart(line, read, depth) ==
    (IF read + 2 <= MaxTokens
     THEN {Read(Level(n), line + 1, read + 1, n) :
             n \in {m \in 0..MaxLevel : m <= depth + 1}}
     ELSE {})
    \cup {Read(EOF, line, read, depth)}

Lex(t, line, read, depth) ==
    IF t.k = "Level"
    THEN {Read(x, line, read + 1, depth) :
            x \in (IF read + 2 <= MaxTokens
                   THEN {Pointer(p) : p \in PointerNames} ELSE {})
                  \cup {Tag(w) : w \in TagNames}
                  \cup {CustomTag(w) : w \in CustomTagNames}}
    ELSE IF t.k = "Pointer"
    THEN {Read(x, line, read + 1, depth) :
            x \in {Tag(w) : w \in TagNames}
                  \cup {CustomTag(w) : w \in CustomTagNames}}
    ELSE IF t.k \in {"Tag", "CustomTag"}
    THEN (IF read + 1 <= MaxTokens
          THEN {Read(LineValue(v), line, read + 1, depth) : v \in ValuesAfter(t)}
          ELSE {})
         \cup LineStart(line, read, depth)
    ELSE IF t.k = "LineValue"
    THEN LineStart(line, read, depth)
    ELSE {Read(EOF, line, read, depth)}

\* the cursor at the beginning of an action
Cursor == [tok |-> tokenizer.current_token, line |-> tokenizer.line,
           read |-> tokenizer.read, depth |-> tokenizer.depth, eaten |-> <<>>]

\* Tokenizer::next_token: the cursors one token further
next_token(c) ==
    {[tok |-> x.tok, line |-> x.line, read |-> x.read, depth |-> x.depth,
      eaten |-> Append(c.eaten, c.tok)] :
        x \in Lex(c.tok, c.line, c.read, c.depth)}

(***************************************************************************)
(* Helpers that consume tokens.  Each gives the set of its outcomes: the   *)
(* cursor it leaves, and either a value or the panic it raises.            *)
(***************************************************************************)
Ok(v, c) == [ok |-> TRUE, val |-> v, c |-> c, msg |-> "", dbg |-> FALSE]
Fail(m, d, c) == [ok |-> FALSE, val |-> <<>>, c |-> c, msg |-> m, dbg |-> d]

\* a value extraction that gives the empty text for a line without a value
take_line_value_OrEmpty(c) ==
    UNION {IF c1.tok.k = "LineValue"
           THEN {Ok(<<c1.tok.s>>, c2) : c2 \in next_token(c1)}
           ELSE {Ok(<<>>, c1)} :
           c1 \in next_token(c)}

\* Parser::take_line_value
take_line_value(c) ==
    UNION {IF c1.tok.k = "LineValue"
           THEN {Ok(<<c1.tok.s>>, c2) : c2 \in next_token(c1)}
           ELSE {Fail("Expected LineValue", TRUE, c1)} :
           c1 \in next_token(c)}

\* Parser::parse_custom_tag
parse_custom_tag(c, tag) ==
    {IF o.ok THEN Ok([tag |-> tag, value |-> o.val], o.c) ELSE o :
        o \in take_line_value(c)}

\* a gender that falls back to Unknown for a letter it does not know
parse_gender_Lenient(c) ==
    UNION {IF c1.tok.k = "LineValue"
           THEN {Ok(CASE c1.tok.s = "M" -> "Male"
                      [] c1.tok.s = "F" -> "Female"
                      [] c1.tok.s = "N" -> "Nonbinary"
                      [] OTHER -> "Unknown", c2) :
                   c2 \in next_token(c1)}
           ELSE {Fail("Expected gender LineValue", FALSE, c1)} :
           c1 \in next_token(c)}

\* Parser::parse_gender
parse_gender(c) ==
    UNION {IF c1.tok.k = "LineValue"
           THEN IF c1.tok.s \in {"M", "F", "N", "U"}
                THEN {Ok(CASE c1.tok.s = "M" -> "Male"
                           [] c1.tok.s = "F" -> "Female"
                           [] c1.tok.s = "N" -> "Nonbinary"
                           [] c1.tok.s = "U" -> "Unknown", c2) :
                        c2 \in next_token(c1)}
                ELSE {Fail("Unknown gender value", TRUE, c1)}
           ELSE {Fail("Expected gender LineValue", FALSE, c1)} :
           c1 \in next_token(c)}

(***************************************************************************)
(* The loop conditions of the parse routines.                              *)
(***************************************************************************)
\* `while self.tokenizer.current_token != Token::Level(level)`
NotLevel(tok, level) == tok # Level(level)

\* a loop that also breaks at the end of the input
AtOrBelow_OrEof(tok, level) == tok.k = "EOF" \/ (tok.k = "Level" /\ tok.n <= level)

\* `if let Token::Level(cur_level) = current_token { if cur_level <= level { break } }`
AtOrBelow(tok, level) == tok.k = "Level" /\ tok.n <= level

(***************************************************************************)
(* Records under construction.  A record of the model holds the fields the *)
(* properties below read; a value stored into a field the record does not  *)
(* hold is consumed from the input and dropped.                            *)
(***************************************************************************)
Put(rec, f, v) == IF f \in DOMAIN rec THEN [rec EXCEPT ![f] = v] ELSE rec
Add(rec, f, v) == IF f \in DOMAIN rec THEN [rec EXCEPT ![f] = Append(@, v)] ELSE rec

NewData == [header |-> [gedcom |-> None, copyright |-> None, note |-> None,
                        custom_data |-> <<>>],
            individuals |-> <<>>, families |-> <<>>, sources |-> <<>>,
            repositories |-> <<>>, submitters |-> <<>>]
NewHeader == NewData.header
NewGedcomDocument == [version |-> None, form |-> None]
NewIndividual(xref) == [xref |-> xref, sex |-> "Unknown", families |-> <<>>,
                        custom_data |-> <<>>, last_updated |-> None]
NewFamily(xref) == [xref |-> xref]
NewSource(xref) == [xref |-> xref, title |-> None, abbreviation |-> None,
                    agency |-> None, events |-> <<>>]
NewRepository(xref) == [xref |-> xref, address |-> None]
NewSubmitter(xref) == [xref |-> xref, address |-> None]
NewFamilyLink(xref, tag) ==
    [xref |-> xref, kind |-> IF tag = "FAMC" THEN "Child" ELSE "Spouse",
     pedigree |-> None]
NewEvent(tag) == [event |-> tag, source_data |-> None]
NewNote == [value |-> None]
NewAddress == [value |-> None]
NewCopyright == [value |-> None, continued |-> None]
Plain == [value |-> None]

(***************************************************************************)
(* Call stack.  A frame: the routine, where it is, its `level` parameter   *)
(* (the constant it compares with, for the routines that have none), the   *)
(* record it builds, the place of its caller that receives the result,     *)
(* its other locals, and whether a Level token <= level has been consumed  *)
(* since the routine was called (history, read by the properties only).    *)
(***************************************************************************)
Frame(r, level, rec, slot, aux) ==
    [r |-> r, pc |-> "enter", level |-> level, rec |-> rec, slot |-> slot,
     aux |-> aux, passed |-> FALSE]

Set(f) == [mode |-> "set", f |-> f]
Push(f) == [mode |-> "add", f |-> f]
NoAux == [x |-> 0]

Top == stack[Len(stack)]
Active(r) == status = "run" /\ Top.r = r
TopWith(fr) == [stack EXCEPT ![Len(stack)] = fr]

\* the frames that were active while the tokens of `eaten` were consumed
Charge(stk, eaten) ==
    [i \in DOMAIN stk |->
        IF i <= Len(stack) /\ stk[i].r # "parse_record"
           /\ \E j \in DOMAIN eaten :
                 eaten[j].k = "Level" /\ eaten[j].n <= stk[i].level
        THEN [stk[i] EXCEPT !.passed = TRUE]
        ELSE stk[i]]

(***************************************************************************)
(* History read by the properties: the document produced so far, as long   *)
(* as it is the beginning of one of the documents the specification gives  *)
(* as scenarios (<<>> once it is none of them), whether the tag that no    *)
(* routine knows has been consumed inside a record, and whether the outer  *)
(* loop is inside the block of a top-level tag it does not handle.         *)
(***************************************************************************)
DocUnknownThenIndi ==
    <<Level(0), CustomTag("_UNKNOWN"), LineValue("foo"),
      Level(0), Tag("INDI"), Level(0), Tag("TRLR")>>
DocUnknownChildThenIndi ==
    <<Level(0), CustomTag("_UNKNOWN"), LineValue("foo"),
      Level(1), Tag("NAME"), LineValue("a"),
      Level(0), Tag("INDI"), Level(0), Tag("TRLR")>>

DocFamilyLink ==
    <<Level(0), Pointer("I1"), Tag("INDI"),
      Level(1), Tag("FAMC"), LineValue("@F1@"),
      Level(2), Tag("PEDI"), LineValue("birth"),
      Level(0), Tag("TRLR")>>
DocMinimal ==
    <<Level(0), Tag("HEAD"), Level(1), Tag("GEDC"),
      Level(2), Tag("VERS"), LineValue("7.0"), Level(0), Tag("TRLR")>>

Scenarios ==
    {DocUnknownThenIndi, DocUnknownChildThenIndi, DocFamilyLink, DocMinimal}

IsPrefix(h, d) == Len(h) <= Len(d) /\ SubSeq(d, 1, Len(h)) = h
Follow(h) == IF \E d \in Scenarios : IsPrefix(h, d) THEN h ELSE <<>>

\* history: when the step just taken is parse_individual's iteration on a
\* SEX line, the token that followed the tag SEX (None after any other step)
SexGiven(c) ==
    LET seq == c.eaten \o <<c.tok>>
        p == IF c.eaten # <<>> /\ c.eaten[1].k = "Level" THEN 2 ELSE 1
    IN  IF Top.r = "parse_individual" /\ Top.pc = "loop"
           /\ Len(c.eaten) >= p /\ c.eaten[p] = Tag("SEX")
        THEN Some(seq[p + 1]) ELSE None

\* history: when the step just taken is parse_gedcom_data's iteration on a
\* FORM line, the token that followed the tag FORM (None after any other step)
FormGiven(c) ==
    LET seq == c.eaten \o <<c.tok>>
        p == IF c.eaten # <<>> /\ c.eaten[1].k = "Level" THEN 2 ELSE 1
    IN  IF Top.r = "parse_gedcom_data" /\ Top.pc = "loop"
           /\ Len(c.eaten) >= p /\ c.eaten[p] = Tag("FORM")
        THEN Some(seq[p + 1]) ELSE None

Observe(c) ==
    [seen |-> IF obs.seen = <<>> \/ c.eaten = <<>> THEN obs.seen
              ELSE Follow(obs.seen \o Tail(c.eaten) \o <<c.tok>>),
     unk |-> obs.unk \/ (Len(stack) > 1
                         /\ \E j \in DOMAIN c.eaten : c.eaten[j] = Tag("UNKNOWNTAG")),
     skipping |-> obs.skipping,
     line_ptr |-> obs.line_ptr,
     sex |-> SexGiven(c),
     form |-> FormGiven(c)]

\* history: while a top-level record other than the header is being built,
\* the Pointer token of the line that introduced it (None if it had none)
LinePointer(c, stk) ==
    IF Len(stk) <= 1 \/ stk[2].r = "parse_header" THEN None
    ELSE IF Len(stack) = 1
    THEN IF Len(c.eaten) = 2 /\ c.eaten[2].k = "Pointer"
         THEN Some(c.eaten[2].s) ELSE None
    ELSE obs.line_ptr

(***************************************************************************)
(* The ways an action ends.                                                *)
(***************************************************************************)
Finish(c, stk, d, st, flt, skip) ==
    /\ tokenizer' = [current_token |-> c.tok, line |-> c.line, read |-> c.read,
                     depth |-> c.depth]
    /\ stack' = Charge(stk, c.eaten)
    /\ data' = d
    /\ status' = st
    /\ fault' = flt
    /\ obs' = [Observe(c) EXCEPT !.skipping = skip, !.line_ptr = LinePointer(c, stk)]

\* the step goes on with the next loop iteration
Commit(c, stk, d) == Finish(c, stk, d, "run", None, obs.skipping)

\* panic!(...): `dbg` tells whether the message begins with self.dbg().  The
\* panic unwinds every routine: the records under construction and the tree
\* are dropped.  What is left is the message, the routine that raised it and
\* the tokenizer where it stood.
Panic(c, msg, dbg) ==
    Finish(c, <<>>, NewData, "panic",
           Some([msg |-> msg, line |-> IF dbg THEN Some(c.line) ELSE None,
                 routine |-> Top.r]), obs.skipping)

\* the prologue is done, the loop begins
Enter(c, rec, aux) ==
    Commit(c, TopWith([Top EXCEPT !.pc = "loop", !.rec = rec, !.aux = aux]), data)

\* `Token::Level(_) => self.tokenizer.next_token()`
Advance(c) == \E c1 \in next_token(c) : Commit(c1, stack, data)

\* One step of a routine's loop handles one line: when the current token is
\* the Level token of a line that belongs to the routine, the iteration that
\* consumes it (`Token::Level(_) => self.tokenizer.next_token()`) and the
\* iteration that dispatches on the token after it are taken together.
Line(c) == IF c.tok.k = "Level" THEN next_token(c) ELSE {c}

\* `x.f = Some(self.take_line_value())` and the like: o is the helper's outcome
Store(o, f) ==
    IF o.ok THEN Commit(o.c, TopWith([Top EXCEPT !.rec = Put(@, f, Some(o.val))]), data)
    ELSE Panic(o.c, o.msg, o.dbg)
StoreAdd(o, f) ==
    IF o.ok THEN Commit(o.c, TopWith([Top EXCEPT !.rec = Add(@, f, o.val)]), data)
    ELSE Panic(o.c, o.msg, o.dbg)
Field(c, f) == \E o \in take_line_value(c) : Store(o, f)

\* `x.f = Some(self.parse_r(level))`: the callee starts at its prologue
Call(c, r, level, rec, slot, aux) ==
    Commit(c, Append(stack, Frame(r, level, rec, slot, aux)), data)

\* the caller's assignment of the value a callee returns
Attach(rec, child, result) ==
    IF child.slot.mode = "set" THEN Put(rec, child.slot.f, Some(result))
    ELSE IF child.slot.mode = "add" THEN Add(rec, child.slot.f, result)
    ELSE IF child.slot.mode = "text" THEN Put(rec, child.slot.f, Some(result))
    ELSE IF child.slot.mode = "gedc" THEN Put(rec, "gedcom", Some(result))
    ELSE \* parse_source, EVEN: event.with_source_data(..); source.data.add_event(event)
         Add(rec, "events",
             Put(result, "source_data", Some(child.aux.events_recorded)))

\* GedcomData::add_family and the like, and `data.header = ...`
AddTop(d, slot, result) ==
    IF slot.mode = "set" THEN [d EXCEPT ![slot.f] = result]
    ELSE [d EXCEPT ![slot.f] = Append(@, result)]

\* the loop breaks and the routine returns `result` to its caller
Return(c, result) ==
    LET n == Len(stack)
        child == stack[n]
        parent == stack[n - 1]
    IN  IF parent.r = "parse_record"
        THEN Commit(c, SubSeq(stack, 1, n - 1), AddTop(data, child.slot, result))
        ELSE Commit(c, Append(SubSeq(stack, 1, n - 2),
                              [parent EXCEPT !.rec = Attach(@, child, result)]),
                    data)

(***************************************************************************)
(* Parser::new and the first lines of parse_record: the tokenizer is       *)
(* primed with the first token, the tree is empty.                         *)
(***************************************************************************)
Init ==
    /\ \E x \in LineStart(0, 0, 0) :
          /\ tokenizer = [current_token |-> x.tok, line |-> x.line, read |-> x.read,
                          depth |-> x.depth]
          /\ obs = [seen |-> Follow(<<x.tok>>), unk |-> FALSE, skipping |-> FALSE,
                    line_ptr |-> None, sex |-> None, form |-> None]
    /\ stack = <<[r |-> "parse_record", pc |-> "loop", level |-> 0,
                  rec |-> None, slot |-> Set(""), aux |-> NoAux,
                  passed |-> FALSE]>>
    /\ data = NewData
    /\ status = "run"
    /\ fault = None

\* a pointer that stays set until a later line brings another one
PointerOf_CarriedOver(c) ==
    IF c.tok.k = "Pointer" THEN Some(c.tok.s)
    ELSE IF data.individuals # <<>>
    THEN data.individuals[Len(data.individuals)].xref
    ELSE None

\* `let mut pointer = None; if let Token::Pointer(xref) = current_token { pointer = Some(xref) }`
PointerOf(c) == IF c.tok.k = "Pointer" THEN Some(c.tok.s) ELSE None

\* an outer loop that takes the end of the input for the end of the document
ExpectedLevel_EndsAtEof(c) ==
    IF c.tok = EOF THEN Finish(c, <<Top>>, data, "done", None, obs.skipping)
    ELSE Panic(c, "Expected Level", TRUE)

\* `_ => panic!("{} Expected Level, found {:?}", self.dbg(), current_token)`
ExpectedLevel(c) == Panic(c, "Expected Level", TRUE)

\* a parser that reads on past the terminator before it stops
Break_ReadsOn(c, skip) ==
    \E c1 \in next_token(c) : Finish(c1, <<Top>>, data, "done", None, skip)

\* `"TRLR" => break` and the `data` that parse_record then returns
Break(c, skip) == Finish(c, <<Top>>, data, "done", None, skip)

(***************************************************************************)
(* Parser::parse_record, one iteration of its loop.  obs.skipping: the     *)
(* loop has met a top-level tag it does not handle and has not since       *)
(* begun an iteration on Level(0) (history).                               *)
(***************************************************************************)
parse_record ==
    /\ Active("parse_record") /\ Top.pc = "loop"
    /\ LET c0 == Cursor IN
       IF c0.tok.k # "Level" THEN ExpectedLevel(c0)
       ELSE
       \E c1 \in next_token(c0) :
       \E c2 \in (IF c1.tok.k = "Pointer" THEN next_token(c1) ELSE {c1}) :
         LET level == c0.tok.n
             pointer == PointerOf(c1)
             me == Top
             skip == obs.skipping /\ level # 0
             tag == c2.tok.s
             Dispatch(r, lv, rec, slot) ==
                 Finish(c2, <<me, Frame(r, lv, rec, slot, NoAux)>>, data,
                        "run", None, skip)
         IN  IF c2.tok.k = "Tag" THEN
                CASE tag = "HEAD" ->
                       Dispatch("parse_header", 0, NewHeader, Set("header"))
                  [] tag = "FAM" ->
                       Dispatch("parse_family", level, NewFamily(pointer),
                                Push("families"))
                  [] tag = "INDI" ->
                       Dispatch("parse_individual", level, NewIndividual(pointer),
                                Push("individuals"))
                  [] tag = "REPO" ->
                       Dispatch("parse_repository", level, NewRepository(pointer),
                                Push("repositories"))
                  [] tag = "SOUR" ->
                       Dispatch("parse_source", level, NewSource(pointer),
                                Push("sources"))
                  [] tag = "SUBM" ->
                       Dispatch("parse_submitter", level, NewSubmitter(pointer),
                                Push("submitters"))
                  [] tag = "TRLR" -> Break(c2, skip)
                  [] OTHER ->
                       \E c3 \in next_token(c2) :
                          Finish(c3, <<me>>, data, "run", None, TRUE)
             ELSE IF c2.tok.k = "CustomTag" THEN
                \E o \in parse_custom_tag(c2, tag) :
                   IF o.ok
                   THEN Finish(o.c, <<[me EXCEPT !.pc = "skip"]>>, data,
                               "run", None, skip)
                   ELSE Panic(o.c, o.msg, o.dbg)
             ELSE \E c3 \in next_token(c2) :
                     Finish(c3, <<me>>, data, "run", None, skip)

\* a skip that stops at the first Level token, whatever its value
parse_record_skip_AnyLevel ==
    /\ Active("parse_record") /\ Top.pc = "skip"
    /\ LET c == Cursor IN
       IF c.tok.k # "Level" THEN Advance(c)
       ELSE Commit(c, TopWith([Top EXCEPT !.pc = "loop"]), data)

\* `while self.tokenizer.current_token != Token::Level(0) { next_token() }`
parse_record_skip ==
    /\ Active("parse_record") /\ Top.pc = "skip"
    /\ LET c == Cursor IN
       IF NotLevel(c.tok, 0) THEN Advance(c)
       ELSE Commit(c, TopWith([Top EXCEPT !.pc = "loop"]), data)

(***************************************************************************)
(* The prologues of the parse routines.                                    *)
(***************************************************************************)
\* a prologue that leaves the introducing tag in place
EnterSkip_Stays(c) == Enter(c, Top.rec, Top.aux)

\* `self.tokenizer.next_token()`: skip the tag (or whatever is current)
EnterSkip(c) == \E c1 \in next_token(c) : Enter(c1, Top.rec, Top.aux)

\* `x.value = Some(self.take_line_value())`
EnterValue(c) ==
    \E o \in take_line_value(c) :
       IF o.ok THEN Enter(o.c, Put(Top.rec, "value", Some(o.val)), Top.aux)
       ELSE Panic(o.c, o.msg, o.dbg)

(***************************************************************************)
(* Top-level records.                                                      *)
(***************************************************************************)
parse_header ==
    /\ Active("parse_header")
    /\ LET c == Cursor
           f == Top
       IN  IF f.pc = "enter" THEN EnterSkip(c)
           ELSE IF ~NotLevel(c.tok, 0) THEN Return(c, f.rec)
           ELSE
           \E d \in Line(c) :
           LET
           tag == d.tok.s
           IN
           IF d.tok.k = "Tag" THEN
              CASE tag = "GEDC" ->
                     Call(d, "parse_gedcom_data", 1, NewGedcomDocument,
                          [mode |-> "gedc", f |-> "gedcom"], NoAux)
                [] tag = "SOUR" -> Call(d, "parse_head_source", 1, Plain, Set("source"), NoAux)
                [] tag = "DEST" -> Field(d, "destination")
                [] tag = "DATE" -> Call(d, "parse_date", 1, Plain, Set("date"), NoAux)
                [] tag = "SUBM" -> Field(d, "submitter_tag")
                [] tag = "SUBN" -> Field(d, "submission_tag")
                [] tag = "FILE" -> Field(d, "filename")
                [] tag = "COPR" ->
                     Call(d, "parse_copyright", 1, NewCopyright, Set("copyright"),
                          [parts |-> <<>>])
                [] tag = "CHAR" -> Call(d, "parse_encoding_data", 1, Plain, Set("encoding"), NoAux)
                [] tag = "LANG" -> Field(d, "language")
                [] tag = "NOTE" ->
                     Call(d, "parse_note", 1, NewNote, Set("note"),
                          [value |-> <<>>, first |-> <<>>, parts |-> <<>>])
                [] tag = "PLAC" -> Call(d, "parse_head_plac", 1, Plain, Set("place"), NoAux)
                [] OTHER -> Panic(d, "Unhandled Header Tag", TRUE)
           ELSE IF d.tok.k = "CustomTag" THEN
              \E o \in parse_custom_tag(d, tag) : StoreAdd(o, "custom_data")
           ELSE Panic(d, "Unhandled Header Token", FALSE)

parse_submitter ==
    /\ Active("parse_submitter")
    /\ LET c == Cursor
           f == Top
       IN  IF f.pc = "enter" THEN EnterSkip(c)
           ELSE IF ~NotLevel(c.tok, f.level) THEN Return(c, f.rec)
           ELSE
           \E d \in Line(c) :
           LET
           tag == d.tok.s
           IN
           IF d.tok.k = "Tag" THEN
              CASE tag = "NAME" -> Field(d, "name")
                [] tag = "ADDR" ->
                     Call(d, "parse_address", f.level + 1, NewAddress, Set("address"),
                          [value |-> <<>>, first |-> <<>>, parts |-> <<>>])
                [] tag = "PHON" -> Field(d, "phone")
                [] tag = "LANG" -> Field(d, "language")
                [] OTHER -> Panic(d, "Unhandled Submitter Tag", TRUE)
           ELSE Panic(d, "Unhandled Submitter Token", FALSE)

IndividualEventTags ==
    {"ADOP", "BIRT", "BAPM", "BARM", "BASM", "BLES", "BURI", "CENS", "CHR",
     "CHRA", "CONF", "CREM", "DEAT", "EMIG", "FCOM", "GRAD", "IMMI", "NATU",
     "ORDN", "RETI", "RESI", "PROB", "WILL", "EVEN"}

parse_individual ==
    /\ Active("parse_individual")
    /\ LET c == Cursor
           f == Top
       IN  IF f.pc = "enter" THEN EnterSkip(c)
           ELSE IF ~NotLevel(c.tok, f.level) THEN Return(c, f.rec)
           ELSE
           \E d \in Line(c) :
           LET
           tag == d.tok.s
           IN
           IF d.tok.k = "Tag" THEN
              CASE tag = "NAME" -> Call(d, "parse_name", f.level + 1, Plain, Set("name"), NoAux)
                [] tag = "SEX" ->
                     \E o \in parse_gender(d) :
                        IF o.ok
                        THEN Commit(o.c, TopWith([f EXCEPT !.rec = Put(@, "sex", o.val)]), data)
                        ELSE Panic(o.c, o.msg, o.dbg)
                [] tag \in IndividualEventTags ->
                     Call(d, "parse_event", f.level + 1, NewEvent(tag), Push("events"), NoAux)
                [] tag \in {"FAMC", "FAMS"} ->
                     Call(d, "parse_family_link", f.level + 1, Plain, Push("families"),
                          [tag |-> tag])
                [] tag = "CHAN" ->
                     \* "assuming it always only has a single DATE subtag"
                     \E c1 \in next_token(d) : \E c2 \in next_token(c1) :
                        Field(c2, "last_updated")
                [] OTHER -> Panic(d, "Unhandled Individual Tag", TRUE)
           ELSE IF d.tok.k = "CustomTag" THEN
              \E o \in parse_custom_tag(d, tag) : StoreAdd(o, "custom_data")
           ELSE Panic(d, "Unhandled Individual Token", FALSE)

parse_family ==
    /\ Active("parse_family")
    /\ LET c == Cursor
           f == Top
       IN  IF f.pc = "enter" THEN EnterSkip(c)
           ELSE IF ~NotLevel(c.tok, f.level) THEN Return(c, f.rec)
           ELSE
           \E d \in Line(c) :
           LET
           tag == d.tok.s
           IN
           IF d.tok.k = "Tag" THEN
              CASE tag = "MARR" ->
                     Call(d, "parse_event", f.level + 1, NewEvent("MARR"), Push("events"), NoAux)
                [] tag = "HUSB" -> Field(d, "individual1")
                [] tag = "WIFE" -> Field(d, "individual2")
                [] tag = "CHIL" -> \E o \in take_line_value(d) : StoreAdd(o, "children")
                [] OTHER -> Panic(d, "Unhandled Family Tag", TRUE)
           ELSE Panic(d, "Unhandled Family Token", FALSE)

parse_source ==
    /\ Active("parse_source")
    /\ LET c == Cursor
           f == Top
       IN  IF f.pc = "enter" THEN EnterSkip(c)
           ELSE IF AtOrBelow(c.tok, f.level) THEN Return(c, f.rec)
           ELSE
           \E d \in Line(c) :
           LET
           tag == d.tok.s
           Text(slot) ==
               Call(d, "take_continued_text", f.level + 1, None,
                    [mode |-> "text", f |-> slot],
                    [value |-> <<>>, first |-> <<>>, parts |-> <<>>])
           IN
           IF d.tok.k = "Tag" THEN
              CASE tag = "DATA" -> Advance(d)
                [] tag = "EVEN" ->
                     \E o \in take_line_value(d) :
                        IF o.ok
                        THEN Call(o.c, "parse_event", f.level + 2, NewEvent("OTHER"),
                                  [mode |-> "source_event", f |-> "events"],
                                  [events_recorded |-> o.val])
                        ELSE Panic(o.c, o.msg, o.dbg)
                [] tag = "AGNC" -> Field(d, "agency")
                [] tag = "ABBR" -> Text("abbreviation")
                [] tag = "TITL" -> Text("title")
                [] tag = "REPO" ->
                     Call(d, "parse_repo_citation", f.level + 1, Plain,
                          Push("repo_citations"), NoAux)
                [] OTHER -> Panic(d, "Unhandled Source Tag", TRUE)
           ELSE Panic(d, "Unhandled Source Token", FALSE)

parse_repository ==
    /\ Active("parse_repository")
    /\ LET c == Cursor
           f == Top
       IN  IF f.pc = "enter" THEN EnterSkip(c)
           ELSE IF AtOrBelow(c.tok, f.level) THEN Return(c, f.rec)
           ELSE
           \E d \in Line(c) :
           LET
           tag == d.tok.s
           IN
           IF d.tok.k = "Tag" THEN
              CASE tag = "NAME" -> Field(d, "name")
                [] tag = "ADDR" ->
                     Call(d, "parse_address", f.level + 1, NewAddress, Set("address"),
                          [value |-> <<>>, first |-> <<>>, parts |-> <<>>])
                [] OTHER -> Panic(d, "Unhandled Repository Tag", TRUE)
           ELSE Panic(d, "Unhandled Repository Token", FALSE)

(***************************************************************************)
(* Substructures of the header.                                            *)
(***************************************************************************)
parse_head_source ==
    /\ Active("parse_head_source")
    /\ LET c == Cursor
           f == Top
       IN  IF f.pc = "enter" THEN EnterValue(c)
           ELSE IF AtOrBelow(c.tok, 1) THEN Return(c, f.rec)
           ELSE
           \E d \in Line(c) :
           LET
           tag == d.tok.s
           IN
           IF d.tok.k = "Tag" THEN
              CASE tag = "VERS" -> Field(d, "version")
                [] tag = "NAME" -> Field(d, "name")
                [] tag = "CORP" ->
                     Call(d, "parse_corporation", 2, Plain, Set("corporation"), NoAux)
                [] tag = "DATA" ->
                     Call(d, "parse_head_data", 2, Plain, Set("data"), NoAux)
                [] OTHER -> Panic(d, "Unhandled CHAR Tag", TRUE)
           ELSE Panic(d, "Unexpected SOUR Token", FALSE)

parse_corporation ==
    /\ Active("parse_corporation")
    /\ LET c == Cursor
           f == Top
       IN  IF f.pc = "enter" THEN EnterValue(c)
           ELSE IF AtOrBelow(c.tok, f.level) THEN Return(c, f.rec)
           ELSE
           \E d \in Line(c) :
           LET
           tag == d.tok.s
           IN
           IF d.tok.k = "Tag" THEN
              CASE tag = "PHON" -> Field(d, "phone")
                [] tag = "EMAIL" -> Field(d, "email")
                [] tag = "FAX" -> Field(d, "fax")
                [] tag = "WWW" -> Field(d, "website")
                [] tag = "ADDR" ->
                     Call(d, "parse_address", f.level + 1, NewAddress, Set("address"),
                          [value |-> <<>>, first |-> <<>>, parts |-> <<>>])
                [] OTHER -> Panic(d, "Unhandled CORP tag", TRUE)
           ELSE Panic(d, "Unhandled CORP tag in header", FALSE)

parse_head_data ==
    /\ Active("parse_head_data")
    /\ LET c == Cursor
           f == Top
       IN  IF f.pc = "enter" THEN EnterValue(c)
           ELSE IF AtOrBelow(c.tok, f.level) THEN Return(c, f.rec)
           ELSE
           \E d \in Line(c) :
           LET
           tag == d.tok.s
           IN
           IF d.tok.k = "Tag" THEN
              CASE tag = "DATE" ->
                     Call(d, "parse_date", f.level + 1, Plain, Set("date"), NoAux)
                [] tag = "COPR" ->
                     Call(d, "parse_copyright", f.level + 1, NewCopyright, Set("copyright"),
                          [parts |-> <<>>])
                [] OTHER -> Panic(d, "unhandled DATA tag in header", TRUE)
           ELSE Panic(d, "Unhandled SOUR tag in header", FALSE)

\* the jurisdictional titles of FORM (split at commas, trimmed) are not
\* among the fields the model records
parse_head_plac ==
    /\ Active("parse_head_plac")
    /\ LET c == Cursor
           f == Top
       IN  IF f.pc = "enter" THEN EnterSkip(c)
           ELSE IF AtOrBelow(c.tok, 1) THEN Return(c, f.rec)
           ELSE
           \E d \in Line(c) :
           LET
           tag == d.tok.s
           IN
           IF d.tok.k = "Tag" THEN
              CASE tag = "FORM" -> Field(d, "jurisdictional_titles")
                [] OTHER -> Panic(d, "Unhandled PLAC tag in header", TRUE)
           ELSE Panic(d, "Unhandled PLAC tag in header", FALSE)

\* continued: the texts of the CONT and CONC lines read so far, aux.parts
\* their tags and texts in the order read (history)
parse_copyright ==
    /\ Active("parse_copyright")
    /\ LET c == Cursor
           f == Top
       IN  IF f.pc = "enter" THEN EnterValue(c)
           ELSE IF AtOrBelow(c.tok, f.level) THEN Return(c, f.rec)
           ELSE
           \E d \in Line(c) :
           LET
           tag == d.tok.s
           IN
           IF d.tok.k = "Tag" THEN
              IF tag \in {"CONT", "CONC"} THEN
                 \E o \in take_line_value(d) :
                    IF o.ok
                    THEN Commit(o.c,
                                TopWith([f EXCEPT !.rec = Put(@, "continued", Some(o.val)),
                                                  !.aux.parts = Append(@, <<tag, o.val>>)]),
                                data)
                    ELSE Panic(o.c, o.msg, o.dbg)
              ELSE Panic(d, "unhandled COPR tag in header", TRUE)
           ELSE Panic(d, "Unhandled tag in COPR", FALSE)

parse_encoding_data ==
    /\ Active("parse_encoding_data")
    /\ LET c == Cursor
           f == Top
       IN  IF f.pc = "enter" THEN EnterValue(c)
           ELSE IF AtOrBelow(c.tok, 1) THEN Return(c, f.rec)
           ELSE
           \E d \in Line(c) :
           LET
           tag == d.tok.s
           IN
           IF d.tok.k = "Tag" THEN
              CASE tag = "VERS" -> Field(d, "version")
                [] OTHER -> Panic(d, "Unhandled CHAR Tag", TRUE)
           ELSE Panic(d, "Unexpected CHAR Token", TRUE)

parse_date ==
    /\ Active("parse_date")
    /\ LET c == Cursor
           f == Top
       IN  IF f.pc = "enter" THEN EnterValue(c)
           ELSE IF AtOrBelow(c.tok, f.level) THEN Return(c, f.rec)
           ELSE
           \E d \in Line(c) :
           LET
           tag == d.tok.s
           IN
           IF d.tok.k = "Tag" THEN
              CASE tag = "TIME" -> Field(d, "time")
                [] OTHER -> Panic(d, "unhandled DATE tag", TRUE)
           ELSE Panic(d, "Unexpected DATE token", FALSE)

parse_translation ==
    /\ Active("parse_translation")
    /\ LET c == Cursor
           f == Top
       IN  IF f.pc = "enter" THEN EnterValue(c)
           ELSE IF AtOrBelow(c.tok, f.level) THEN Return(c, f.rec)
           ELSE
           \E d \in Line(c) :
           LET
           tag == d.tok.s
           IN
           IF d.tok.k = "Tag" THEN
              CASE tag = "MIME" -> Field(d, "mime")
                [] tag = "LANG" -> Field(d, "language")
                [] OTHER -> Panic(d, "unhandled NOTE tag", TRUE)
           ELSE Panic(d, "Unexpected NOTE token", FALSE)

\* aux.value is the local `value`; aux.first the text of the NOTE line and
\* aux.parts the tags and texts of the CONT and CONC lines read (history)
parse_note ==
    /\ Active("parse_note")
    /\ LET c == Cursor
           f == Top
       IN  IF f.pc = "enter" THEN
              \E o \in take_line_value(c) :
                 IF o.ok
                 THEN Enter(o.c, f.rec, [value |-> o.val, first |-> o.val, parts |-> <<>>])
                 ELSE Panic(o.c, o.msg, o.dbg)
           ELSE IF AtOrBelow(c.tok, f.level) THEN
              Return(c, IF f.aux.value # <<>> THEN Put(f.rec, "value", Some(f.aux.value))
                        ELSE f.rec)
           ELSE
           \E d \in Line(c) :
           LET
           tag == d.tok.s
           IN
           IF d.tok.k = "Tag" THEN
              CASE tag = "MIME" -> Field(d, "mime")
                [] tag = "TRAN" ->
                     Call(d, "parse_translation", f.level + 1, Plain, Set("translation"), NoAux)
                [] tag = "LANG" -> Field(d, "language")
                [] tag \in {"CONT", "CONC"} ->
                     \E o \in take_line_value(d) :
                        IF o.ok
                        THEN Commit(o.c,
                                    TopWith([f EXCEPT
                                       !.aux.value = (@ \o <<"\n">>) \o o.val,
                                       !.aux.parts = Append(@, <<tag, o.val>>)]),
                                    data)
                        ELSE Panic(o.c, o.msg, o.dbg)
                [] OTHER -> Panic(d, "unhandled NOTE tag", TRUE)
           ELSE Panic(d, "Unexpected NOTE token", FALSE)

\* str::to_uppercase, on the texts a FORM line of the model can carry
to_uppercase(v) == IF v = <<"lineage-linked">> THEN <<"LINEAGE-LINKED">> ELSE v

\* a FORM arm that refuses a form it does not recognize
GedcomForm_Strict(d) ==
    \E o \in take_line_value(d) :
       IF o.ok /\ to_uppercase(o.val) # <<"LINEAGE-LINKED">>
       THEN Panic(o.c, "Unrecognized GEDCOM form", TRUE)
       ELSE Store(o, "form")

\* the FORM arm: `let form = self.take_line_value()`, a warning printed when
\* its upper case is not LINEAGE-LINKED, then `gedc.form = Some(form)`
GedcomForm(d) ==
    \E o \in take_line_value(d) :
       LET warning == o.ok /\ to_uppercase(o.val) # <<"LINEAGE-LINKED">>
       IN  IF warning THEN Store(o, "form") ELSE Store(o, "form")

parse_gedcom_data ==
    /\ Active("parse_gedcom_data")
    /\ LET c == Cursor
           f == Top
       IN  IF f.pc = "enter" THEN EnterSkip(c)
           ELSE IF AtOrBelow(c.tok, 1) THEN Return(c, f.rec)
           ELSE
           \E d \in Line(c) :
           LET
           tag == d.tok.s
           IN
           IF d.tok.k = "Tag" THEN
              CASE tag = "VERS" -> Field(d, "version")
                [] tag = "FORM" -> GedcomForm(d)
                [] OTHER -> Panic(d, "Unhandled GEDC Tag", TRUE)
           ELSE Panic(d, "Unexpected GEDC Token", TRUE)

(***************************************************************************)
(* Substructures of the other records.                                     *)
(***************************************************************************)
\* a link that ends at the first Level token, whatever its value
parse_family_link_OneLine ==
    /\ Active("parse_family_link")
    /\ LET c == Cursor
           f == Top
       IN  IF f.pc = "enter" THEN
              \E o \in take_line_value(c) :
                 IF o.ok THEN Enter(o.c, NewFamilyLink(o.val, f.aux.tag), f.aux)
                 ELSE Panic(o.c, o.msg, o.dbg)
           ELSE IF c.tok.k = "Level" THEN Return(c, f.rec)
           ELSE Panic(c, "Unhandled FamilyLink Token", FALSE)

parse_family_link ==
    /\ Active("parse_family_link")
    /\ LET c == Cursor
           f == Top
       IN  IF f.pc = "enter" THEN
              \E o \in take_line_value(c) :
                 IF o.ok THEN Enter(o.c, NewFamilyLink(o.val, f.aux.tag), f.aux)
                 ELSE Panic(o.c, o.msg, o.dbg)
           ELSE IF AtOrBelow(c.tok, f.level) THEN Return(c, f.rec)
           ELSE
           \E d \in Line(c) :
           LET
           tag == d.tok.s
           IN
           IF d.tok.k = "Tag" THEN
              CASE tag = "PEDI" -> Field(d, "pedigree")
                [] OTHER -> Panic(d, "Unhandled FamilyLink Tag", TRUE)
           ELSE Panic(d, "Unhandled FamilyLink Token", FALSE)

\* xref = self.take_line_value()
EnterXref(c) ==
    \E o \in take_line_value(c) :
       IF o.ok THEN Enter(o.c, Put(Top.rec, "xref", o.val), Top.aux)
       ELSE Panic(o.c, o.msg, o.dbg)

parse_repo_citation ==
    /\ Active("parse_repo_citation")
    /\ LET c == Cursor
           f == Top
       IN  IF f.pc = "enter" THEN EnterXref(c)
           ELSE IF AtOrBelow(c.tok, f.level) THEN Return(c, f.rec)
           ELSE
           \E d \in Line(c) :
           LET
           tag == d.tok.s
           IN
           IF d.tok.k = "Tag" THEN
              CASE tag = "CALN" -> Field(d, "call_number")
                [] OTHER -> Panic(d, "Unhandled RepoCitation Tag", TRUE)
           ELSE Panic(d, "Unhandled RepoCitation Token", FALSE)

parse_name ==
    /\ Active("parse_name")
    /\ LET c == Cursor
           f == Top
       IN  IF f.pc = "enter" THEN EnterValue(c)
           ELSE IF AtOrBelow(c.tok, f.level) THEN Return(c, f.rec)
           ELSE
           \E d \in Line(c) :
           LET
           tag == d.tok.s
           IN
           IF d.tok.k = "Tag" THEN
              CASE tag = "GIVN" -> Field(d, "given")
                [] tag = "NPFX" -> Field(d, "prefix")
                [] tag = "NSFX" -> Field(d, "suffix")
                [] tag = "SPFX" -> Field(d, "surname_prefix")
                [] tag = "SURN" -> Field(d, "surname")
                [] OTHER -> Panic(d, "Unhandled Name Tag", TRUE)
           ELSE Panic(d, "Unhandled Name Token", FALSE)

parse_event ==
    /\ Active("parse_event")
    /\ LET c == Cursor
           f == Top
       IN  IF f.pc = "enter" THEN EnterSkip(c)
           ELSE IF AtOrBelow(c.tok, f.level) THEN Return(c, f.rec)
           ELSE
           \E d \in Line(c) :
           LET
           tag == d.tok.s
           IN
           IF d.tok.k = "Tag" THEN
              CASE tag = "DATE" -> Field(d, "date")
                [] tag = "PLAC" -> Field(d, "place")
                [] tag = "SOUR" ->
                     Call(d, "parse_citation", f.level + 1, Plain, Push("citations"), NoAux)
                [] OTHER -> Panic(d, "Unhandled Event Tag", TRUE)
           ELSE Panic(d, "Unhandled Event Token", FALSE)

\* aux.value is the local `value`; aux.first the text of the ADDR line and
\* aux.parts the tags and texts of the CONT and CONC lines read (history)
parse_address ==
    /\ Active("parse_address")
    /\ LET c == Cursor
           f == Top
       IN  IF f.pc = "enter" THEN
              \E c1 \in next_token(c) :
                 IF c1.tok.k = "LineValue"
                 THEN \E c2 \in next_token(c1) :
                         Enter(c2, f.rec, [value |-> <<c1.tok.s>>,
                                           first |-> <<c1.tok.s>>, parts |-> <<>>])
                 ELSE Enter(c1, f.rec, f.aux)
           ELSE IF AtOrBelow(c.tok, f.level) THEN
              Return(c, IF f.aux.value # <<>> THEN Put(f.rec, "value", Some(f.aux.value))
                        ELSE f.rec)
           ELSE
           \E d \in Line(c) :
           LET
           tag == d.tok.s
           IN
           IF d.tok.k = "Tag" THEN
              CASE tag \in {"CONT", "CONC"} ->
                     \E o \in take_line_value(d) :
                        IF o.ok
                        THEN Commit(o.c,
                                    TopWith([f EXCEPT
                                       !.aux.value = (@ \o <<"\n">>) \o o.val,
                                       !.aux.parts = Append(@, <<tag, o.val>>)]),
                                    data)
                        ELSE Panic(o.c, o.msg, o.dbg)
                [] tag = "ADR1" -> Field(d, "adr1")
                [] tag = "ADR2" -> Field(d, "adr2")
                [] tag = "ADR3" -> Field(d, "adr3")
                [] tag = "CITY" -> Field(d, "city")
                [] tag = "STAE" -> Field(d, "state")
                [] tag = "POST" -> Field(d, "post")
                [] tag = "CTRY" -> Field(d, "country")
                [] OTHER -> Panic(d, "Unhandled Address Tag", TRUE)
           ELSE Panic(d, "Unhandled Address Token", FALSE)

parse_citation ==
    /\ Active("parse_citation")
    /\ LET c == Cursor
           f == Top
       IN  IF f.pc = "enter" THEN EnterXref(c)
           ELSE IF AtOrBelow(c.tok, f.level) THEN Return(c, f.rec)
           ELSE
           \E d \in Line(c) :
           LET
           tag == d.tok.s
           IN
           IF d.tok.k = "Tag" THEN
              CASE tag = "PAGE" -> Field(d, "page")
                [] OTHER -> Panic(d, "Unhandled Citation Tag", TRUE)
           ELSE Panic(d, "Unhandled Citation Token", FALSE)

\* a CONC that appends its text directly, like a CONT without the newline
Separator_ConcBare(tag) == IF tag = "CONT" THEN <<"\n">> ELSE <<>>

\* what take_continued_text pushes before the text of a CONT or a CONC line
Separator(tag) == IF tag = "CONT" THEN <<"\n">> ELSE <<" ">>

\* aux.value is the local `value`; aux.first the text of the first line and
\* aux.parts the tags and texts of the CONT and CONC lines read (history)
take_continued_text ==
    /\ Active("take_continued_text")
    /\ LET c == Cursor
           f == Top
       IN  IF f.pc = "enter" THEN
              \E o \in take_line_value(c) :
                 IF o.ok
                 THEN Enter(o.c, f.rec, [value |-> o.val, first |-> o.val, parts |-> <<>>])
                 ELSE Panic(o.c, o.msg, o.dbg)
           ELSE IF AtOrBelow(c.tok, f.level) THEN Return(c, f.aux.value)
           ELSE
           \E d \in Line(c) :
           LET
           tag == d.tok.s
           Extend ==
               \E o \in take_line_value(d) :
                  IF o.ok
                  THEN Commit(o.c,
                              TopWith([f EXCEPT
                                 !.aux.value = (@ \o Separator(tag)) \o o.val,
                                 !.aux.parts = Append(@, <<tag, o.val>>)]),
                              data)
                  ELSE Panic(o.c, o.msg, o.dbg)
           IN
           IF d.tok.k = "Tag" THEN
              CASE tag = "CONT" -> Extend
                [] tag = "CONC" -> Extend
                [] OTHER -> Panic(d, "Unhandled Continuation Tag", TRUE)
           ELSE Panic(d, "Unhandled Continuation Token", FALSE)

(***************************************************************************)
(* The parser.                                                             *)
(***************************************************************************)
Next ==
    \/ parse_record
    \/ parse_record_skip
    \/ parse_header
    \/ parse_head_source
    \/ parse_corporation
    \/ parse_head_data
    \/ parse_head_plac
    \/ parse_copyright
    \/ parse_submitter
    \/ parse_individual
    \/ parse_family
    \/ parse_source
    \/ parse_repository
    \/ parse_encoding_data
    \/ parse_date
    \/ parse_translation
    \/ parse_note
    \/ parse_gedcom_data
    \/ parse_family_link
    \/ parse_repo_citation
    \/ parse_name
    \/ parse_event
    \/ parse_address
    \/ parse_citation
    \/ take_continued_text

Spec == Init /\ [][Next]_vars

(***************************************************************************)
(* Properties.                                                             *)
(***************************************************************************)
Cur == tokenizer.current_token
InRecord == status = "run" /\ Len(stack) >= 2
FaultIn(rs) == status = "panic" /\ fault[1].routine \in rs
Records(d) ==
    Len(d.individuals) + Len(d.families) + Len(d.sources)
    + Len(d.repositories) + Len(d.submitters)

\* a first line's text extended by CONT and CONC lines, in document order:
\* a newline before the text of a CONT, one space before the text of a CONC
RECURSIVE Joined(_, _)
Joined(first, parts) ==
    IF parts = <<>> THEN first
    ELSE LET n == Len(parts) IN
         (Joined(first, SubSeq(parts, 1, n - 1))
          \o (IF parts[n][1] = "CONT" THEN <<"\n">> ELSE <<" ">>))
         \o parts[n][2]

\* C1: a routine called with level d never consumes a Level token <= d: no
\* active routine has passed one since it was called.
C1_LevelFloor == \A i \in DOMAIN stack : ~stack[i].passed

\* C2: inside the block of a top-level tag the outer loop does not handle
\* (until an iteration begins on Level(0), or the input ends) the parse does
\* not fault and no line is dispatched to a record routine.
C2_UnknownTopLevelTagSkipped ==
    (obs.skipping /\ Cur # EOF) => (status # "panic" /\ Len(stack) <= 1)

\* C3: for `0 _UNKNOWN foo`, `0 INDI`, `0 TRLR`, without or with a line under
\* _UNKNOWN, the parse never faults, and once the document is read it has
\* ended with exactly one individual and no other record.
C3_CustomRecordSkipped ==
    \A doc \in {DocUnknownThenIndi, DocUnknownChildThenIndi} :
       /\ (obs.seen # <<>> /\ IsPrefix(obs.seen, doc)) => status # "panic"
       /\ obs.seen = doc =>
             /\ status = "done"
             /\ fault = None
             /\ Len(data.individuals) = 1
             /\ Records(data) = 1

C3_Witness ==
    /\ obs.seen = DocUnknownChildThenIndi
    /\ status = "done"
    /\ Len(data.individuals) = 1

\* C4: while take_continued_text runs, its value is the first line's text
\* extended by the CONT and CONC lines read so far, in order, a newline
\* before each CONT text and one space before each CONC text; the value it
\* returns to parse_source becomes the source's title or abbreviation.
C4_ContinuedText ==
    /\ [](\A i \in DOMAIN stack :
            (stack[i].r = "take_continued_text" /\ stack[i].pc = "loop")
            => stack[i].aux.value = Joined(stack[i].aux.first, stack[i].aux.parts))
    /\ [][(Active("take_continued_text") /\ Top.pc = "loop"
           /\ status' = "run" /\ Len(stack') < Len(stack))
          => stack'[Len(stack')].rec[Top.slot.f]
               = Some(Joined(Top.aux.first, Top.aux.parts))]_vars

C4_Witness ==
    /\ Active("take_continued_text")
    /\ Top.aux.parts = <<<<"CONT", <<"b">>>>, <<"CONC", <<"a">>>>>>
    /\ Top.aux.value = <<"a", "\n", "b", " ", "a">>

\* C5: parse_note, parse_address and parse_copyright extend the value as
\* take_continued_text does: newline before a CONT text, one space before a
\* CONC text, every line kept.
C5_SameContinuation ==
    \A i \in DOMAIN stack :
       /\ (stack[i].r \in {"parse_note", "parse_address"} /\ stack[i].pc = "loop")
          => stack[i].aux.value = Joined(stack[i].aux.first, stack[i].aux.parts)
       /\ (stack[i].r = "parse_copyright" /\ stack[i].pc = "loop")
          => stack[i].rec.value
               = Some(Joined(stack[i].rec.value[1], stack[i].aux.parts))

\* C6: a tag that no routine knows is never consumed inside a record without
\* the parse faulting.
C6_UnknownFieldFaults == obs.unk => status = "panic"

\* C7: no record routine faults on a CustomTag: a fault raised inside a
\* record is never raised with a CustomTag as the current token.
C7_CustomTagNotAFault ==
    (status = "panic" /\ fault[1].routine # "parse_record")
    => Cur.k # "CustomTag"

\* C8: no line with a leading level other than 0 is dispatched by the outer
\* loop: every routine the outer loop has called was called with level 0.
C8_LeadingLevelZero == Len(stack) >= 2 => stack[2].level = 0

\* C9: the step that ends the parse is taken on TRLR at the outer loop, leaves
\* TRLR the current token (nothing after it is read), leaves the tree as it
\* was, raises no fault; and nothing happens afterwards.
C9_TrailerEndsParse ==
    [][/\ status' = "done" =>
            /\ Len(stack) = 1
            /\ tokenizer'.current_token = Tag("TRLR")
            /\ data' = data
            /\ fault' = None
       /\ status = "done" => UNCHANGED vars]_vars

C9_Witness ==
    /\ status = "done"
    /\ Records(data) >= 1
    /\ tokenizer.read < MaxTokens

\* C10 as claimed: with the end of the input current while a record routine
\* is active, the routine returns its record.
C10_EofReturns ==
    [][(InRecord /\ Top.pc = "loop" /\ Cur = EOF)
       => (status' = "run" /\ Len(stack') < Len(stack))]_vars

\* C10 as amended: with the end of the input current while a record routine
\* is active, the routine's next step is a fatal fault (a routine still in
\* its prologue first ends the prologue, the input still at its end).
C10_EofFaults ==
    [][(InRecord /\ Cur = EOF)
       => \/ status' = "panic"
          \/ /\ Top.pc = "enter"
             /\ status' = "run" /\ Len(stack') = Len(stack)
             /\ stack'[Len(stack')].pc = "loop"
             /\ tokenizer'.current_token = EOF]_vars

C10_Witness ==
    /\ FaultIn({"parse_repository"})
    /\ fault[1].msg = "Unhandled Repository Token"
    /\ Cur = EOF

\* C11: parse_record terminates: as long as the parse is running it has a step
\* that changes the state (consumes a token, calls or returns), so it never
\* spins in place; the parse is then over after finitely many steps.
C11_Terminates == status = "run" => ENABLED <<Next>>_vars

\* C12: every fatal fault carries the tokenizer's line number in its message.
C12_FaultCarriesLine == status = "panic" => fault[1].line # None

\* C13: while a top-level FAM, INDI, REPO, SOUR or SUBM record is built its
\* identifier is the Pointer token of the line that introduced it, absent if
\* that line had none, and the record is added to the tree with that
\* identifier; a pointer of an earlier line is never carried over.
C13_XrefOfSameLine ==
    /\ []((Len(stack) >= 2 /\ stack[2].r # "parse_header")
          => stack[2].rec.xref = obs.line_ptr)
    /\ [][(status = "run" /\ Len(stack) = 2 /\ stack[2].r # "parse_header"
           /\ status' = "run" /\ Len(stack') = 1)
          => LET list == data'[stack[2].slot.f]
             IN  /\ Len(list) = Len(data[stack[2].slot.f]) + 1
                 /\ list[Len(list)].xref = obs.line_ptr]_vars

C13_Witness ==
    /\ Len(stack) = 2 /\ stack[2].r = "parse_family"
    /\ stack[2].rec.xref = None
    /\ Len(data.individuals) = 1
    /\ data.individuals[1].xref = Some("I1")

\* C14: for `0 @I1@ INDI`, `1 FAMC @F1@`, `2 PEDI birth`, `0 TRLR` the parse
\* never faults and ends with exactly one individual, I1, holding exactly one
\* family link: to the family written on the FAMC line, as child, with
\* pedigree birth.  In every document parse_family_link returns a link of the
\* kind its tag names, appends it to the individual's links, and leaves the
\* cursor, unconsumed, on a Level token <= the link's depth.
C14_FamilyLink ==
    /\ []((obs.seen # <<>> /\ IsPrefix(obs.seen, DocFamilyLink)) => status # "panic")
    /\ [](obs.seen = DocFamilyLink =>
            /\ status = "done" /\ fault = None
            /\ Records(data) = 1
            /\ Len(data.individuals) = 1
            /\ data.individuals[1].xref = Some("I1")
            /\ data.individuals[1].families
                 = <<[xref |-> <<"@F1@">>, kind |-> "Child",
                      pedigree |-> Some(<<"birth">>)]>>)
    /\ [][(Active("parse_family_link") /\ Top.pc = "loop"
           /\ status' = "run" /\ Len(stack') < Len(stack))
          => /\ tokenizer' = tokenizer
             /\ Cur.k = "Level" /\ Cur.n <= Top.level
             /\ Top.rec.kind = (IF Top.aux.tag = "FAMC" THEN "Child" ELSE "Spouse")
             /\ stack'[Len(stack')].rec.families
                  = Append(stack[Len(stack) - 1].rec.families, Top.rec)]_vars

C14_Witness ==
    /\ obs.seen = DocFamilyLink
    /\ status = "done"
    /\ data.individuals[1].families[1].pedigree = Some(<<"birth">>)

\* C15: for `0 HEAD`, `1 GEDC`, `2 VERS 7.0`, `0 TRLR` the parse never faults
\* and ends with a header whose document version is 7.0 and with no
\* individual, family, source, repository or submitter.
C15_MinimalDocument ==
    /\ (obs.seen # <<>> /\ IsPrefix(obs.seen, DocMinimal)) => status # "panic"
    /\ obs.seen = DocMinimal =>
          /\ status = "done" /\ fault = None
          /\ data.header.gedcom # None
          /\ data.header.gedcom[1].version = Some(<<"7.0">>)
          /\ Records(data) = 0

C15_Witness ==
    /\ obs.seen = DocMinimal
    /\ status = "done"
    /\ data.header.gedcom = Some([version |-> Some(<<"7.0">>), form |-> None])

\* C16: after parse_individual's step on a SEX line: if the token after SEX
\* was the LineValue M, F, N or U, the parse goes on, the individual's sex is
\* Male, Female, Nonbinary or Unknown respectively and the cursor is past the
\* value; if it was any other LineValue, or not a LineValue, the parse has
\* faulted at that token.
C16_SexVocabulary ==
    obs.sex # None =>
       LET t == obs.sex[1] IN
       IF t.k = "LineValue" /\ t.s \in {"M", "F", "N", "U"}
       THEN /\ status = "run"
            /\ Top.r = "parse_individual"
            /\ Top.rec.sex = (CASE t.s = "M" -> "Male"
                                [] t.s = "F" -> "Female"
                                [] t.s = "N" -> "Nonbinary"
                                [] t.s = "U" -> "Unknown")
            /\ Cur.k \in {"Level", "EOF"}
       ELSE /\ status = "panic"
            /\ Cur = t

C16_Witness ==
    /\ obs.sex = Some(LineValue("X"))
    /\ status = "panic"
    /\ fault[1].msg = "Unknown gender value"

\* C17: after parse_gedcom_data's step on a FORM line with a value, whatever
\* the value (LINEAGE-LINKED in any case, or anything else): the parse has
\* not faulted, the routine goes on with the form field holding the value as
\* written, and the cursor is on what follows the value.
C17_FormNeverFatal ==
    (obs.form # None /\ obs.form[1].k = "LineValue") =>
       /\ status = "run"
       /\ Top.r = "parse_gedcom_data" /\ Top.pc = "loop"
       /\ Top.rec.form = Some(<<obs.form[1].s>>)
       /\ Cur.k \in {"Level", "EOF"}

C17_Witness ==
    /\ obs.form = Some(LineValue("other"))
    /\ status = "run"
    /\ Top.rec.form = Some(<<"other">>)

\* C18: an iteration of the outer loop that begins on a token other than a
\* Level aborts the parse with the fault `Expected Level`; and the parse ends
\* with the tree only by an iteration of the outer loop that began on a Level
\* and met the tag TRLR.
C18_MissingLevelAborts ==
    [][/\ (Active("parse_record") /\ Top.pc = "loop" /\ Cur.k # "Level")
          => (status' = "panic" /\ fault'[1].msg = "Expected Level")
       /\ status' = "done"
          => /\ Active("parse_record") /\ Top.pc = "loop"
             /\ Cur.k = "Level"
             /\ tokenizer'.current_token = Tag("TRLR")]_vars

C18_Witness ==
    /\ status = "panic"
    /\ fault[1].msg = "Expected Level"
    /\ fault[1].routine = "parse_record"
    /\ Cur = EOF
    /\ tokenizer.read >= 2

\* C19: the parse_event that parse_source calls for an EVEN line consumes no
\* Level token of a sibling or shallower line (a Level <= the depth of the
\* EVEN line): it returns with the cursor on it.
C19_EvenKeepsLevel ==
    \A i \in DOMAIN stack :
       (stack[i].r = "parse_event" /\ stack[i].slot.mode = "source_event")
       => ~stack[i].passed

\* the routines that begin by taking the value of the line that introduced them
TakesValue ==
    {"parse_head_source", "parse_corporation", "parse_head_data",
     "parse_copyright", "parse_encoding_data", "parse_date",
     "parse_translation", "parse_note", "parse_family_link",
     "parse_repo_citation", "parse_name", "parse_citation",
     "take_continued_text"}

====
